---- MODULE Spec2Model ----
(***************************************************************************)
(* A model of ml_mnist/knn/_knn.py: the KNNClassifier estimator.           *)
(*                                                                         *)
(* The estimator object is the record `self`; its fields carry the names   *)
(* of the Python attributes.  Python's None is the empty tuple and a       *)
(* present optional value v is <<v>>, so that `if v:` reads v # None.      *)
(* Row indices are 1-based here (0-based in numpy).                        *)
(* A feature vector is a pair of integers <<a, b>>.                        *)
(***************************************************************************)
EXTENDS Integers, Sequences, FiniteSets, TLC

VARIABLES self, disk, last, io

vars == <<self, disk, last, io>>

(***************************************************************************)
(* Bounds of the model.                                                    *)
(***************************************************************************)
MaxN == 2          \* largest training set, and largest k
MaxQ == 1          \* largest query batch
MaxRows == 3       \* largest training set of the search specification
MaxVotes == 3      \* most neighbors of the voting specification
MaxDist == 3       \* largest distance of the voting specification

None == <<>>
Some(v) == <<v>>
Val(o) == o[1]

Abs(a) == IF a < 0 THEN 0 - a ELSE a
Max2(a, b) == IF a < b THEN b ELSE a
Min2(a, b) == IF a < b THEN a ELSE b

Range(f) == {f[i] : i \in DOMAIN f}

\* The sequences of n distinct elements of 1..m.
Arrangements(n, m) == {f \in [1..n -> 1..m] : \A i, j \in 1..n : f[i] = f[j] => i = j}

(***************************************************************************)
(* Distances.                                                              *)
(***************************************************************************)
\* numpy's inf, as a distance: larger than every finite distance of the model.
INF == 1000

\* scipy.spatial.distance.minkowski(x, y, p), for the orders p = 1 and p = inf.
minkowski(x, y, p) ==
    IF p = "1" THEN Abs(x[1] - y[1]) + Abs(x[2] - y[2])
    ELSE Max2(Abs(x[1] - y[1]), Abs(x[2] - y[2]))

\* kernels.get_kernel(name): the kernel function of that name.
get_kernel(name, x, y) ==
    IF name = "linear" THEN x[1] * y[1] + x[2] * y[2]
    ELSE (x[1] * y[1] + x[2] * y[2] + 1) * (x[1] * y[1] + x[2] * y[2] + 1)

\* A user's metric callable; "absdx2" is lambda x, y: np.abs(x[0] - y[0]) ** 2.
CallMetric(name, x, y) ==
    IF name = "absdx2" THEN Abs(x[1] - y[1]) * Abs(x[1] - y[1])
    ELSE Abs(x[2] - y[2])

\* The three lambdas self._metric can hold, applied.  The Minkowski lambda reads
\* self.p when it is called, not when it was made.
CallResolved(s, m, x, y) ==
    CASE m.kind = "kernel" ->
           get_kernel(m.fn, x, x) - 2 * get_kernel(m.fn, x, y) + get_kernel(m.fn, y, y)
      [] m.kind = "metric" -> CallMetric(m.fn, x, y)
      [] OTHER -> minkowski(x, y, s.p)

Unresolved == [kind |-> "unset", fn |-> "None"]

_check_metricNoKernelPriority(s) ==
    LET warn == (s.metric # None \/ s.kernel # None) /\ s.algorithm = "kd_tree"
        s1 == IF warn THEN [s EXCEPT !.algorithm = "brute"] ELSE s
        m == IF s.metric # None THEN [kind |-> "metric", fn |-> Val(s.metric)]
             ELSE IF s.kernel # None THEN [kind |-> "kernel", fn |-> Val(s.kernel)]
             ELSE [kind |-> "minkowski", fn |-> "self.p"]
    IN  [st |-> [s1 EXCEPT !._metric = m], warned |-> warn]

_check_metricNoDowngrade(s) ==
    LET m == IF s.kernel # None THEN [kind |-> "kernel", fn |-> Val(s.kernel)]
             ELSE IF s.metric # None THEN [kind |-> "metric", fn |-> Val(s.metric)]
             ELSE [kind |-> "minkowski", fn |-> "self.p"]
    IN  [st |-> [s EXCEPT !._metric = m], warned |-> FALSE]

\* KNNClassifier._check_metric: the state it leaves and whether it printed the
\* downgrade warning.
_check_metric(s) ==
    LET warn == (s.metric # None \/ s.kernel # None) /\ s.algorithm = "kd_tree"
        s1 == IF warn THEN [s EXCEPT !.algorithm = "brute"] ELSE s
        m == IF s.kernel # None THEN [kind |-> "kernel", fn |-> Val(s.kernel)]
             ELSE IF s.metric # None THEN [kind |-> "metric", fn |-> Val(s.metric)]
             ELSE [kind |-> "minkowski", fn |-> "self.p"]
    IN  [st |-> [s1 EXCEPT !._metric = m], warned |-> warn]

(***************************************************************************)
(* The spatial index (scipy's cKDTree), as the data it was built over and  *)
(* whether this object was built here or came out of pickle.loads.         *)
(***************************************************************************)
cKDTree(X, leafsize) == [data |-> X, leafsize |-> leafsize, origin |-> "built"]

\* cKDTree.query(x, k, p): the min(k, n) nearest rows by Minkowski distance of
\* order p, nearest first, ties in any order; a missing neighbor is reported as
\* the index n (here n + 1) at distance inf.  With k = 1 the result is a scalar.
KdQuery(tree, x, k, p) ==
    LET n == Len(tree.data)
        m == Min2(k, n)
        d == [i \in 1..n |-> minkowski(x, tree.data[i], p)]
        found == {f \in Arrangements(m, n) :
                    /\ \A i \in 1..m : \A j \in (1..n) \ Range(f) : d[f[i]] <= d[j]
                    /\ \A i \in 1..(m - 1) : d[f[i]] <= d[f[i + 1]]}
    IN  {[indices |-> [i \in 1..k |-> IF i <= m THEN f[i] ELSE n + 1],
          distances |-> [i \in 1..k |-> IF i <= m THEN d[f[i]] ELSE INF],
          scalar |-> (k = 1),
          err |-> "none",
          path |-> "kd_tree"] : f \in found}

argpartitionFirstRows(d, k) == {[i \in 1..k |-> i]}

\* np.argpartition(distances, kth=k - 1)[:k]: position k - 1 holds the element a
\* sort would put there, the positions before it hold elements that are not
\* larger, in an order numpy leaves undefined.
argpartition(d, k) ==
    LET n == Len(d)
    IN  {f \in Arrangements(k, n) :
           /\ \A i \in 1..k : \A j \in (1..n) \ Range(f) : d[f[i]] <= d[j]
           /\ \A i \in 1..k : d[f[i]] <= d[f[k]]}

Failed(e, p) == [indices |-> <<>>, distances |-> <<>>, scalar |-> FALSE, err |-> e, path |-> p]

\* KNNClassifier._k_neighbors_x: every result the search of one query can give.
_k_neighbors_x(s, x, k) ==
    IF s.algorithm = "brute"
    THEN LET d == [i \in 1..Len(s._X) |-> CallResolved(s, s._metric, x, s._X[i])]
         IN  {[indices |-> f, distances |-> [i \in 1..k |-> d[f[i]]],
               scalar |-> FALSE, err |-> "none", path |-> "brute"] : f \in argpartition(d, k)}
    ELSE IF s.algorithm = "kd_tree"
    THEN IF s.kd_tree_ = None
         THEN {Failed("AttributeError", "kd_tree")}
         ELSE KdQuery(Val(s.kd_tree_), x, k, s.p)
    ELSE {Failed("UnboundLocalError", "none")}

(***************************************************************************)
(* Voting.                                                                 *)
(***************************************************************************)
\* Counter(tally).most_common(1)[0][0]: a label of largest count in the tally
\* (label -> count); which one of several is left to the dict's iteration order.
most_common(tally) == {l \in DOMAIN tally : \A l2 \in DOMAIN tally : tally[l] >= tally[l2]}

Verdict(l, e) == [label |-> l, err |-> e]

\* KNNClassifier._aggregate: every label the vote can return.  With weights =
\* 'distance' the tally is Counter(dict(zip(targets, 1. / distances))): the dict
\* keeps, for each label, the weight of the last neighbor that carries it, and
\* 1/a >= 1/b exactly when -a >= -b (1/0 is numpy's inf, 1/inf is 0), so the
\* tally holds -distance in place of 1/distance.  A scalar `distances` (the
\* index's answer for k = 1) cannot be zipped.
_aggregate(s, neighbors_targets, distances, scalar) ==
    LET keys == Range(neighbors_targets)
        n == Len(neighbors_targets)
        Count(l) == Cardinality({i \in 1..n : neighbors_targets[i] = l})
        LastOf(l) == CHOOSE i \in 1..n :
                        /\ neighbors_targets[i] = l
                        /\ \A j \in (i + 1)..n : neighbors_targets[j] # l
    IN  IF s.weights = "uniform"
        THEN {Verdict(l, "none") : l \in most_common([l \in keys |-> Count(l)])}
        ELSE IF s.weights = "distance"
        THEN IF scalar
             THEN {Verdict(0, "TypeError")}
             ELSE {Verdict(l, "none") :
                     l \in most_common([l \in keys |-> 0 - distances[LastOf(l)]])}
        ELSE {Verdict(0, "InvalidWeights")}

\* KNNClassifier._predict_x: self._y[indices] fails on an index past the labels.
_predict_x(s, x) ==
    UNION {IF r.err # "none" THEN {[label |-> 0, err |-> r.err, path |-> r.path]}
           ELSE IF \E i \in 1..Len(r.indices) : r.indices[i] > Len(s._y)
           THEN {[label |-> 0, err |-> "IndexError", path |-> r.path]}
           ELSE {[label |-> v.label, err |-> v.err, path |-> r.path] :
                   v \in _aggregate(s, [i \in 1..Len(r.indices) |-> s._y[r.indices[i]]],
                                    r.distances, r.scalar)}
           : r \in _k_neighbors_x(s, x, s.k)}

(***************************************************************************)
(* The estimator's operations.  Each gives the set of outcomes the call    *)
(* can have: the state it leaves (st), how it ended (result), what it      *)
(* returned (out) and what it did on the way.                              *)
(***************************************************************************)
\* The distance function a search of state s applies, as configuration values.
Applied(s, path) ==
    IF path = "brute" /\ s._metric.kind # "minkowski"
    THEN [kind |-> s._metric.kind, fn |-> s._metric.fn, p |-> "-"]
    ELSE [kind |-> "minkowski", fn |-> "self.p", p |-> s.p]

NoOut == [indices |-> <<>>, distances |-> <<>>, labels |-> <<>>]

Outcome(s, k, res, o, warn, path, work, built) ==
    [st |-> s, result |-> res, out |-> o, warned |-> warn, path |-> path, k |-> k,
     used |-> IF path = "none" THEN Unresolved @@ [p |-> "-"] ELSE Applied(s, path),
     work |-> work, built |-> built]

_fitAlwaysBuilds(s, X, y) ==
    LET c == _check_metric(s)
        t == c.st
    IN  IF t.algorithm = "kd_tree"
        THEN Outcome([t EXCEPT !.kd_tree_ = Some(cKDTree(X, t.leaf_size))], 0,
                     "ok", NoOut, c.warned, "none", 0, TRUE)
        ELSE IF t.algorithm = "brute"
        THEN Outcome(t, 0, "ok", NoOut, c.warned, "none", 0, FALSE)
        ELSE Outcome(t, 0, "InvalidAlgorithm", NoOut, c.warned, "none", 0, FALSE)

\* KNNClassifier._fit.
_fit(s, X, y) ==
    LET c == _check_metric(s)
        t == c.st
    IN  IF t.algorithm = "kd_tree"
        THEN IF t._called_fit \/ t.kd_tree_ = None
             THEN Outcome([t EXCEPT !.kd_tree_ = Some(cKDTree(X, t.leaf_size))], 0,
                          "ok", NoOut, c.warned, "none", 0, TRUE)
             ELSE Outcome(t, 0, "ok", NoOut, c.warned, "none", 0, FALSE)
        ELSE IF t.algorithm = "brute"
        THEN Outcome(t, 0, "ok", NoOut, c.warned, "none", 0, FALSE)
        ELSE Outcome(t, 0, "InvalidAlgorithm", NoOut, c.warned, "none", 0, FALSE)

\* BaseEstimator.fit: attach the validated inputs, call _fit, and mark the
\* estimator as fitted in this process when _fit returned.
fit(s, X, y) ==
    LET r == _fit([s EXCEPT !._X = X, !._y = y, !._n_samples = Some(Len(X))], X, y)
    IN  IF r.result = "ok" THEN [r EXCEPT !.st._called_fit = TRUE] ELSE r

\* The loop of k_neighbors over the rows X[i..]: acc is what the earlier rows
\* gave.  A scalar answer of the index cannot be concatenated.
RECURSIVE NeighborsFrom(_, _, _, _, _)
NeighborsFrom(s, X, k, i, acc) ==
    IF i > Len(X) THEN {acc}
    ELSE UNION {
        IF r.err # "none"
        THEN {[acc EXCEPT !.err = r.err, !.path = r.path, !.work = i]}
        ELSE IF r.scalar
        THEN {[acc EXCEPT !.err = "ValueError", !.path = r.path, !.work = i]}
        ELSE NeighborsFrom(s, X, k, i + 1,
                           [indices |-> acc.indices \o r.indices,
                            distances |-> acc.distances \o r.distances,
                            err |-> "none", path |-> r.path, work |-> i])
        : r \in _k_neighbors_x(s, X[i], k)}

NoNeighbors == [indices |-> <<>>, distances |-> <<>>, err |-> "none", path |-> "none", work |-> 0]

\* KNNClassifier.k_neighbors; k = 0 stands for k=None (`k or self.k`).
k_neighbors(s, X, k, return_distances) ==
    LET kk == IF k = 0 THEN s.k ELSE k
    IN  IF s._n_samples = None
        THEN \* None < k: true in Python 2, a TypeError in Python 3
             {Outcome(s, kk, e, NoOut, FALSE, "none", 0, FALSE) : e \in {"InsufficientSamples", "TypeError"}}
        ELSE IF Val(s._n_samples) < kk
        THEN {Outcome(s, kk, "InsufficientSamples", NoOut, FALSE, "none", 0, FALSE)}
        ELSE LET c == _check_metric(s)
             IN  {IF a.err # "none"
                  THEN Outcome(c.st, kk, a.err, NoOut, c.warned, a.path, a.work, FALSE)
                  ELSE Outcome(c.st, kk, "ok",
                               [indices |-> a.indices,
                                distances |-> IF return_distances THEN a.distances ELSE <<>>,
                                labels |-> <<>>],
                               c.warned, a.path, a.work, FALSE)
                  : a \in NeighborsFrom(c.st, X, kk, 1, NoNeighbors)}

\* The list comprehension of _predict over the rows X[i..].
RECURSIVE PredictFrom(_, _, _, _)
PredictFrom(s, X, i, acc) ==
    IF i > Len(X) THEN {acc}
    ELSE UNION {
        IF v.err # "none"
        THEN {[acc EXCEPT !.err = v.err, !.path = v.path, !.work = i]}
        ELSE PredictFrom(s, X, i + 1,
                         [labels |-> Append(acc.labels, v.label), err |-> "none",
                          path |-> v.path, work |-> i])
        : v \in _predict_x(s, X[i])}

_predictResolvesFirst(s, X) ==
    LET c == _check_metric(s)
    IN  IF Val(s._n_samples) < s.k
        THEN {Outcome(c.st, s.k, "InsufficientSamples", NoOut, c.warned, "none", 0, FALSE)}
        ELSE {IF a.err # "none"
              THEN Outcome(c.st, s.k, a.err, NoOut, c.warned, a.path, a.work, FALSE)
              ELSE Outcome(c.st, s.k, "ok", [NoOut EXCEPT !.labels = a.labels],
                           c.warned, a.path, a.work, FALSE)
              : a \in PredictFrom(c.st, X, 1,
                                  [labels |-> <<>>, err |-> "none", path |-> "none", work |-> 0])}

\* KNNClassifier._predict.
_predict(s, X) ==
    IF Val(s._n_samples) < s.k
    THEN {Outcome(s, s.k, "InsufficientSamples", NoOut, FALSE, "none", 0, FALSE)}
    ELSE LET c == _check_metric(s)
         IN  {IF a.err # "none"
              THEN Outcome(c.st, s.k, a.err, NoOut, c.warned, a.path, a.work, FALSE)
              ELSE Outcome(c.st, s.k, "ok", [NoOut EXCEPT !.labels = a.labels],
                           c.warned, a.path, a.work, FALSE)
              : a \in PredictFrom(c.st, X, 1,
                                  [labels |-> <<>>, err |-> "none", path |-> "none", work |-> 0])}

\* BaseEstimator.predict: only a fitted estimator predicts.
predict(s, X) ==
    IF s._called_fit THEN _predict(s, X)
    ELSE {Outcome(s, s.k, "NotFitted", NoOut, FALSE, "none", 0, FALSE)}

(***************************************************************************)
(* Persistence.                                                            *)
(***************************************************************************)
\* pickle.dumps / pickle.loads of an index: the bytes hold what the index was
\* built over; loading makes a new object of the same content.
pickle_dumps(tree) == [pickle |-> <<tree.data, tree.leafsize>>]
pickle_loads(blob) == [data |-> blob.pickle[1], leafsize |-> blob.pickle[2], origin |-> "loaded"]

ParamNames == {"k", "p", "weights", "algorithm", "leaf_size", "metric", "kernel",
               "kernel_params", "kd_tree_"}

\* BaseEstimator.get_params: the constructor's parameters and kd_tree_.
get_params(s) == [n \in ParamNames |-> s[n]]

\* KNNClassifier._serialize.
_serialize(params) ==
    IF "kd_tree_" \in DOMAIN params /\ params.kd_tree_ # None
    THEN [params EXCEPT !.kd_tree_ = Some(pickle_dumps(Val(params.kd_tree_)))]
    ELSE params

\* KNNClassifier._deserialize.
_deserialize(params) ==
    IF "kd_tree_" \in DOMAIN params /\ params.kd_tree_ # None
    THEN [params EXCEPT !.kd_tree_ = Some(pickle_loads(Val(params.kd_tree_)))]
    ELSE params

\* KNNClassifier.__init__ and BaseEstimator.__init__.
KNNClassifier(k, p, weights, algorithm, leaf_size, metric, kernel) ==
    [k |-> k, p |-> p, weights |-> weights, algorithm |-> algorithm,
     leaf_size |-> leaf_size, metric |-> metric, kernel |-> kernel,
     kernel_params |-> <<>>, kd_tree_ |-> None, _metric |-> Unresolved,
     _X |-> None, _y |-> None, _n_samples |-> None, _called_fit |-> FALSE]

\* BaseEstimator.save: what is written to the file.
save(s) == _serialize(get_params(s))

\* utils.read_write.load_model: a new estimator with the file's parameters.
load_model(file) ==
    LET q == _deserialize(file)
        fresh == KNNClassifier(q.k, q.p, q.weights, q.algorithm, q.leaf_size, q.metric, q.kernel)
    IN  [fresh EXCEPT !.kd_tree_ = q.kd_tree_]

(***************************************************************************)
(* Inputs.                                                                 *)
(***************************************************************************)
\* The training data of the class's doctests.
DocX == << <<0, 0>>, <<0, 1>>, <<1, 0>>, <<1, 1>> >>
DocY == <<0, 1, 1, 0>>

Points == Range(DocX)
Labels == Range(DocY)

\* Training sets of the lifecycle: the first n rows of the doctest data, for
\* every n up to MaxN, and its last MaxN rows.
TrainSets ==
    {[X |-> SubSeq(DocX, 1, n), y |-> SubSeq(DocY, 1, n)] : n \in 1..MaxN}
    \cup {[X |-> SubSeq(DocX, Len(DocX) - MaxN + 1, Len(DocX)),
           y |-> SubSeq(DocY, Len(DocY) - MaxN + 1, Len(DocY))]}

\* Query rows: the doctests' X_test, rounded to the grid.
QueryPoints == {DocX[Len(DocX)]}

Batches == UNION {[1..m -> QueryPoints] : m \in 0..MaxQ}

\* The configured k: the smallest, and the size of the largest training set.
Ks == {1, MaxN}
\* The k argument of k_neighbors: left out (0, the configured k is used) or given.
KArgs == {0, MaxN}
Ps == {"1", "inf"}
\* The lifecycle votes with the default weights; SpecVote examines the vote.
Weights == {"uniform"}
Algorithms == {"brute", "kd_tree", "ball_tree"}
Metrics == {None, Some("absdx2")}
Kernels == {None, Some("linear")}

Domains == [k |-> Ks, p |-> Ps, weights |-> Weights, algorithm |-> Algorithms,
            metric |-> Metrics, kernel |-> Kernels]

Settings == [k : Ks, p : Ps, weights : Weights, algorithm : Algorithms,
             metric : Metrics, kernel : Kernels]

Idle == [stage |-> "idle"]

Did(op, o) == [op |-> op, result |-> o.result, out |-> o.out, warned |-> o.warned,
               path |-> o.path, k |-> o.k, used |-> o.used, work |-> o.work, built |-> o.built]

\* last is the outcome of the latest fit, predict or k_neighbors call; the other
\* calls clear it.
NoCall == [op |-> "none", result |-> "ok", out |-> NoOut, warned |-> FALSE, path |-> "none",
           k |-> 0, used |-> Unresolved @@ [p |-> "-"], work |-> 0, built |-> FALSE]

(***************************************************************************)
(* The lifecycle: one estimator, its calls, and a save to and a load from   *)
(* the model file.  save is the last call of a session; load_model starts   *)
(* the next session, in which the file is not read again.                   *)
(***************************************************************************)
Init ==
    /\ \E c \in Settings :
         self = KNNClassifier(c.k, c.p, c.weights, c.algorithm, 30, c.metric, c.kernel)
    /\ disk = None
    /\ last = NoCall
    /\ io = Idle

\* BaseEstimator.set_params, one parameter.
SetParams ==
    /\ disk = None
    /\ \E n \in DOMAIN Domains : \E v \in Domains[n] :
         /\ self' = [self EXCEPT ![n] = v]
         /\ last' = NoCall
    /\ UNCHANGED <<disk, io>>

Fit ==
    /\ disk = None
    /\ \E d \in TrainSets :
         LET r == fit(self, d.X, d.y)
         IN  /\ self' = r.st
             /\ last' = Did("fit", r)
    /\ UNCHANGED <<disk, io>>

Predict ==
    /\ disk = None
    /\ \E X \in Batches : \E r \in predict(self, X) :
         /\ self' = r.st
         /\ last' = Did("predict", r)
    /\ UNCHANGED <<disk, io>>

KNeighbors ==
    /\ disk = None
    /\ \E X \in Batches : \E k \in KArgs : \E rd \in BOOLEAN :
         \E r \in k_neighbors(self, X, k, rd) :
           /\ self' = r.st
           /\ last' = Did("k_neighbors", r)
    /\ UNCHANGED <<disk, io>>

Save ==
    /\ disk = None
    /\ disk' = Some(save(self))
    /\ last' = NoCall
    /\ UNCHANGED <<self, io>>

Load ==
    /\ disk # None
    /\ self' = load_model(Val(disk))
    /\ disk' = None
    /\ last' = NoCall
    /\ UNCHANGED io

Next == SetParams \/ Fit \/ Predict \/ KNeighbors \/ Save \/ Load

Spec == Init /\ [][Next]_vars

(***************************************************************************)
(* Properties of the lifecycle (specification Spec).                       *)
(***************************************************************************)
Custom(s) == s.metric # None \/ s.kernel # None

Searched == last.op \in {"predict", "k_neighbors"} /\ last.path # "none"

\* C1: a fit of an estimator that was loaded with an index (kd_tree_ not None,
\* not yet fitted in this process, algorithm kd_tree, no kernel and no metric)
\* succeeds, leaves kd_tree_ the object pickle.loads returned and does not call
\* the index builder.
C1_FitKeepsLoadedIndex ==
    [][(/\ last'.op = "fit"
        /\ ~self._called_fit
        /\ self.kd_tree_ # None
        /\ self.algorithm = "kd_tree"
        /\ ~Custom(self))
       => (/\ last'.result = "ok"
           /\ self'.kd_tree_ = self.kd_tree_
           /\ Val(self'.kd_tree_).origin = "loaded"
           /\ ~last'.built)]_vars

C1_Witness ==
    /\ last.op = "fit" /\ last.result = "ok" /\ ~last.built
    /\ self.algorithm = "kd_tree" /\ ~Custom(self)
    /\ self.kd_tree_ # None /\ Val(self.kd_tree_).origin = "loaded"

\* C2: whenever a search of predict or k_neighbors has run one of its two
\* paths while a kernel or a metric is configured, algorithm is brute and the
\* path taken was the brute one; and a call that printed the downgrade warning
\* left algorithm = brute.
C2_NoIndexedSearchWithCustomMetric ==
    /\ (Searched /\ Custom(self)) => (self.algorithm = "brute" /\ last.path = "brute")
    /\ last.warned => (self.algorithm = "brute" /\ Custom(self))

C2_Witness ==
    /\ Searched /\ last.warned /\ last.result = "ok"
    /\ self.kernel # None /\ self.kd_tree_ # None

\* C3: a predict of a fitted estimator, or a k_neighbors of an estimator with
\* training data attached, whose effective k exceeds n_samples ends with the
\* InsufficientSamples error, searches no row, returns nothing and leaves every
\* field of the estimator as it was.
C3_TooLargeKFailsFirst ==
    [][(/\ last'.op \in {"predict", "k_neighbors"}
        /\ self._n_samples # None
        /\ last'.op = "predict" => self._called_fit
        /\ last'.k > Val(self._n_samples))
       => (/\ last'.result = "InsufficientSamples"
           /\ last'.work = 0 /\ last'.path = "none"
           /\ last'.out = NoOut
           /\ ~last'.warned
           /\ self' = self)]_vars

C3_Witness ==
    /\ last.op = "predict" /\ last.result = "InsufficientSamples"
    /\ self.algorithm = "kd_tree" /\ Custom(self)
    /\ self._metric.kind = "minkowski"

\* What a fitted estimator answers for the one-row batch <<q>>: the labels, or
\* <<-1>> when the call raises.
Answers(s, q) == {IF o.result = "ok" THEN o.out.labels ELSE <<-1>> : o \in predict(s, <<q>>)}

Restored(s) == load_model(save(s))

\* C4: for a fitted estimator, save then load_model gives the same parameters,
\* an equivalent index when there was one and None (also in the file) when
\* there was none; and the restored estimator, fitted on the same data, answers
\* every query as the original does.
C4_RoundTripPredictsTheSame ==
    self._called_fit =>
        LET r == Restored(self)
            refit == fit(r, self._X, self._y).st
        IN  /\ \A n \in ParamNames \ {"kd_tree_"} : r[n] = self[n]
            /\ self.kd_tree_ = None => (save(self).kd_tree_ = None /\ r.kd_tree_ = None)
            /\ self.kd_tree_ # None =>
                 /\ r.kd_tree_ # None
                 /\ Val(r.kd_tree_).data = Val(self.kd_tree_).data
                 /\ Val(r.kd_tree_).leafsize = Val(self.kd_tree_).leafsize
            /\ \A q \in Points : Answers(refit, q) = Answers(self, q)

\* The distance function the configuration of s resolves to.
Configured(s) ==
    IF s.kernel # None THEN [kind |-> "kernel", fn |-> Val(s.kernel), p |-> "-"]
    ELSE IF s.metric # None THEN [kind |-> "metric", fn |-> Val(s.metric), p |-> "-"]
    ELSE [kind |-> "minkowski", fn |-> "self.p", p |-> s.p]

\* C7: the distance function a search applies is the one the configuration at
\* that call resolves to: the kernel's induced distance if a kernel is set,
\* else the metric if one is set, else Minkowski of the current p.
C7_SearchUsesCurrentConfiguration ==
    Searched => last.used = Configured(self)

C7_Witness ==
    /\ Searched /\ last.result = "ok" /\ last.path = "brute"
    /\ self.kernel # None /\ self.metric # None
    /\ last.used.kind = "kernel"

\* A call that got as far as validating or using the algorithm field.
UsedAlgorithm ==
    \/ last.op = "fit"
    \/ last.op \in {"predict", "k_neighbors"} /\ last.work > 0 /\ self._called_fit

\* C8: a fit, predict or k_neighbors that meets an algorithm outside
\* {brute, kd_tree} ends with the InvalidAlgorithm error, builds no index and
\* returns nothing.
C8_InvalidAlgorithmIsReported ==
    (UsedAlgorithm /\ self.algorithm \notin {"brute", "kd_tree"})
        => (last.result = "InvalidAlgorithm" /\ ~last.built /\ last.out = NoOut)

\* C9: whenever a search took the indexed path, an index is present.
C9_IndexedSearchHasIndex ==
    (Searched /\ last.path = "kd_tree") => self.kd_tree_ # None

\* C10: whenever a search queried an index built in this process and returned,
\* the index is over the training features of the latest fit.
C10_IndexIsOverCurrentData ==
    (/\ Searched /\ last.path = "kd_tree" /\ last.result = "ok"
     /\ self.kd_tree_ # None /\ Val(self.kd_tree_).origin = "built")
        => Val(self.kd_tree_).data = self._X

(***************************************************************************)
(* The brute-force search as a function (specification SpecSearch): a      *)
(* fitted brute estimator over any training rows, any query row, any k up  *)
(* to the number of rows; one step runs _k_neighbors_x.                    *)
(***************************************************************************)
\* Configurations of the search: Minkowski of either order, a custom metric,
\* either kernel, and a kernel together with a metric.
SearchSettings ==
    {[p |-> p, metric |-> None, kernel |-> None] : p \in Ps}
    \cup {[p |-> "1", metric |-> Some("absdx2"), kernel |-> None]}
    \cup {[p |-> "1", metric |-> None, kernel |-> Some(kn)] : kn \in {"linear", "poly"}}
    \cup {[p |-> "1", metric |-> Some("absdx2"), kernel |-> Some("linear")]}

RowSets == UNION {[1..n -> Points] : n \in 1..MaxRows}

\* The doctests' labelling of the four points.
DocLabel(x) == IF x[1] = x[2] THEN 0 ELSE 1

InitSearch ==
    /\ \E X \in RowSets : \E c \in SearchSettings : \E k \in 1..Len(X) :
         self = fit(KNNClassifier(k, c.p, "uniform", "brute", 30, c.metric, c.kernel),
                    X, [i \in 1..Len(X) |-> DocLabel(X[i])]).st
    /\ disk = None
    /\ last = NoCall
    /\ \E x \in Points : io = [stage |-> "query", x |-> x]

Search ==
    /\ io.stage = "query"
    /\ \E r \in _k_neighbors_x(self, io.x, self.k) :
         io' = [stage |-> "found", x |-> io.x, indices |-> r.indices, distances |-> r.distances]
    /\ UNCHANGED <<self, disk, last>>

NextSearch == Search

SpecSearch == InitSearch /\ [][NextSearch]_vars

\* The distance of the configured function from the query to row i.
RowDistance(i) ==
    LET c == Configured(self)
    IN  CASE c.kind = "kernel" ->
               get_kernel(c.fn, io.x, io.x) - 2 * get_kernel(c.fn, io.x, self._X[i])
                 + get_kernel(c.fn, self._X[i], self._X[i])
          [] c.kind = "metric" -> CallMetric(c.fn, io.x, self._X[i])
          [] OTHER -> minkowski(io.x, self._X[i], c.p)

\* The rows a stable sort of all distances puts first, k of them.
SortAndTruncate ==
    {i \in 1..Len(self._X) :
       Cardinality({j \in 1..Len(self._X) :
                      \/ RowDistance(j) < RowDistance(i)
                      \/ RowDistance(j) = RowDistance(i) /\ j <= i}) <= self.k}

WellFormedAnswer ==
    /\ Len(io.indices) = self.k /\ Len(io.distances) = self.k
    /\ \A i \in 1..self.k : io.indices[i] \in 1..Len(self._X)
    /\ \A i, j \in 1..self.k : io.indices[i] = io.indices[j] => i = j
    /\ \A i \in 1..self.k : io.distances[i] = RowDistance(io.indices[i])

\* C5, as claimed: the brute search returns k distinct rows in range, each with
\* its own distance, and as a set the rows of a full sort-and-truncate.
C5_SameSetAsSortAndTruncate ==
    io.stage = "found" => (WellFormedAnswer /\ Range(io.indices) = SortAndTruncate)

\* C5, amended: the brute search returns k distinct rows in range, each with its
\* own distance; no row left out is nearer than a row returned; and the rows
\* are those of a full sort-and-truncate whenever the k-th and the (k+1)-th
\* smallest distances differ.
C5_KSmallestDistances ==
    io.stage = "found" =>
        /\ WellFormedAnswer
        /\ \A i \in Range(io.indices) : \A j \in (1..Len(self._X)) \ Range(io.indices) :
             RowDistance(i) <= RowDistance(j)
        /\ (\A i \in SortAndTruncate : \A j \in (1..Len(self._X)) \ SortAndTruncate :
              RowDistance(i) < RowDistance(j))
           => Range(io.indices) = SortAndTruncate

\* Rows at distances 1, 1, 0 of the query and k = 2: numpy's selection swaps the
\* nearest row to the front and returns rows {3, 2}; a sort returns rows {3, 1}.
C5_Witness ==
    /\ io.stage = "found"
    /\ self._X = << <<0, 1>>, <<1, 0>>, <<0, 0>> >> /\ io.x = <<0, 0>>
    /\ self.k = 2 /\ ~Custom(self) /\ self.p = "1"
    /\ io.indices = <<3, 2>> /\ io.distances = <<0, 1>>
    /\ SortAndTruncate = {1, 3}

(***************************************************************************)
(* The vote as a function (specification SpecVote): any labels and         *)
(* distances of up to MaxVotes neighbors; one step runs _aggregate.        *)
(***************************************************************************)
VoteWeights == {"uniform", "distance", "rank"}

InitVote ==
    /\ \E w \in VoteWeights : self = KNNClassifier(1, "1", w, "brute", 30, None, None)
    /\ disk = None
    /\ last = NoCall
    /\ \E n \in 1..MaxVotes : \E t \in [1..n -> Labels] : \E d \in [1..n -> 0..MaxDist] :
       \E sc \in {FALSE, n = 1} :
         io = [stage |-> "neighbors", targets |-> t, distances |-> d, scalar |-> sc]

Vote ==
    /\ io.stage = "neighbors"
    /\ \E v \in _aggregate(self, io.targets, io.distances, io.scalar) :
         io' = [stage |-> "voted", targets |-> io.targets, distances |-> io.distances,
                scalar |-> io.scalar, label |-> v.label, err |-> v.err]
    /\ UNCHANGED <<self, disk, last>>

NextVote == Vote

SpecVote == InitVote /\ [][NextVote]_vars

\* The product of the nonzero distances: 1/d is (Scale \div d) / Scale.
Scale ==
    LET P[i \in 0..Len(io.distances)] ==
          IF i = 0 THEN 1
          ELSE P[i - 1] * (IF io.distances[i] = 0 THEN 1 ELSE io.distances[i])
    IN  P[Len(io.distances)]

\* Whether a neighbor of label l is at distance 0 (its weight is infinite).
Decisive(l) == \E i \in 1..Len(io.targets) : io.targets[i] = l /\ io.distances[i] = 0

\* Scale times the sum of 1/distance over the neighbors of label l.
Total(l) ==
    LET S[i \in 0..Len(io.targets)] ==
          IF i = 0 THEN 0
          ELSE S[i - 1] + (IF io.targets[i] = l /\ io.distances[i] # 0
                           THEN Scale \div io.distances[i] ELSE 0)
    IN  S[Len(io.targets)]

\* Positive distances, no two alike: no weight is infinite and no two weights tie.
Generic ==
    /\ \A i \in 1..Len(io.distances) : io.distances[i] > 0
    /\ \A i, j \in 1..Len(io.distances) : io.distances[i] = io.distances[j] => i = j

\* C6: with weights = distance every neighbor adds 1/distance to the total of
\* its label, and the vote returns a label of the highest total (stated for
\* neighbors at positive, pairwise different distances).
C6_HighestSummedWeightWins ==
    (io.stage = "voted" /\ self.weights = "distance" /\ ~io.scalar /\ Generic) =>
        /\ io.err = "none"
        /\ io.label \in Range(io.targets)
        /\ \A l \in Range(io.targets) :
             \/ Decisive(io.label)
             \/ ~Decisive(l) /\ Total(io.label) >= Total(l)

====
